---- MODULE Spec2Model ----
(***************************************************************************)
(* Model of the selector validation pipeline of ai_test_generator.py:     *)
(* SelectorValidator (extraction, sequential run, per-selector probe,     *)
(* navigation attempt, aggregation), StrategyValidator.validate_strategy  *)
(* and the validation gate of AutomatedTestGenerator.                     *)
(*                                                                         *)
(* Python strings that the code inspects (selectors, actions, element     *)
(* types, element values) are sequences of one-character strings, so that *)
(* startswith / in / lower / strip / re.search are computed.  Strings the *)
(* code only copies (purpose, urls, error texts) are TLA+ strings.         *)
(***************************************************************************)
EXTENDS Integers, Sequences, FiniteSets, TLC

\* ------------------------------------------------------------------ bounds
MaxElements == 2
MaxDirectSelectors == 1
\* the longest list of probed items from which a report is computed
MaxReportItems == 4

\* ------------------------------------------------------- python strings
\* Python None where a string is expected
None == <<"<None>">>

Truthy(s) == s # None /\ s # <<>>

StartsWith(s, p) == Len(s) >= Len(p) /\ SubSeq(s, 1, Len(p)) = p

\* Python "sub in s"
Contains(s, sub) ==
    \E i \in 1..(Len(s) - Len(sub) + 1) : SubSeq(s, i, i + Len(sub) - 1) = sub

LowerChar(c) ==
    CASE c = "A" -> "a" [] c = "B" -> "b" [] c = "C" -> "c" [] c = "D" -> "d"
      [] c = "E" -> "e" [] c = "F" -> "f" [] c = "G" -> "g" [] c = "H" -> "h"
      [] c = "I" -> "i" [] c = "J" -> "j" [] c = "K" -> "k" [] c = "L" -> "l"
      [] c = "M" -> "m" [] c = "N" -> "n" [] c = "O" -> "o" [] c = "P" -> "p"
      [] c = "Q" -> "q" [] c = "R" -> "r" [] c = "S" -> "s" [] c = "T" -> "t"
      [] c = "U" -> "u" [] c = "V" -> "v" [] c = "W" -> "w" [] c = "X" -> "x"
      [] c = "Y" -> "y" [] c = "Z" -> "z" [] OTHER -> c

\* str.lower()
Lower(s) == [i \in 1..Len(s) |-> LowerChar(s[i])]

IsSpace(c) == c \in {" ", "\t", "\n"}

\* str.strip()
Strip(s) ==
    LET nonSpace == {i \in 1..Len(s) : ~IsSpace(s[i])}
        lo == CHOOSE i \in nonSpace : \A j \in nonSpace : i <= j
        hi == CHOOSE i \in nonSpace : \A j \in nonSpace : i >= j
    IN  IF nonSpace = {} THEN <<>> ELSE SubSeq(s, lo, hi)

\* ------------------------------------------------------ string literals
S_click    == <<"c","l","i","c","k">>
S_hover    == <<"h","o","v","e","r">>
S_type     == <<"t","y","p","e">>
S_verify   == <<"v","e","r","i","f","y">>
S_navigate == <<"n","a","v","i","g","a","t","e">>
S_submit   == <<"s","u","b","m","i","t">>
S_Click_sp == <<" ","C","l","i","c","k"," ">>

S_NA             == <<"N","/","A">>
S_window_loc     == <<"w","i","n","d","o","w",".","l","o","c","a","t","i","o","n">>
S_contains_paren == <<":","c","o","n","t","a","i","n","s","(">>
S_slashslash     == <<"/","/">>
S_test           == <<"t","e","s","t">>
S_hash           == <<"#">>
S_js_void        == <<"j","a","v","a","s","c","r","i","p","t",":","v","o","i","d">>

S_link   == <<"l","i","n","k">>
S_button == <<"b","u","t","t","o","n">>
S_menu   == <<"m","e","n","u">>
S_nav    == <<"n","a","v">>

\* regex literal prefixes of _extract_text_expectation
S_text_eq      == <<"t","e","x","t","(",")","=","'">>
S_normalize_eq == <<"n","o","r","m","a","l","i","z","e","-","s","p","a","c","e","(",")","=","'">>
S_contains_text == <<"c","o","n","t","a","i","n","s","(","t","e","x","t","(",")",",">>

VALID_ACTIONS == {S_click, S_hover, S_type, S_verify, S_navigate}

\* ---------------------------------------------------------- the resolver
_create_locator_from_selector_permissive(selector) ==
    IF StartsWith(selector, S_NA) \/ Contains(selector, S_window_loc)
    THEN "invalid_selector_syntax"
    ELSE IF StartsWith(selector, S_slashslash)
    THEN "xpath"
    ELSE "css"

_create_locator_from_selector_no_sentinel(selector) ==
    IF Contains(selector, S_contains_paren)
    THEN "contains_unsupported"
    ELSE IF StartsWith(selector, S_slashslash)
    THEN "xpath"
    ELSE "css"

\* _create_locator_from_selector: the kind of locator built, or the error raised
_create_locator_from_selector(selector) ==
    IF StartsWith(selector, S_NA) \/ Contains(selector, S_window_loc)
    THEN "invalid_selector_syntax"
    ELSE IF Contains(selector, S_contains_paren)
    THEN "contains_unsupported"
    ELSE IF StartsWith(selector, S_slashslash)
    THEN "xpath"
    ELSE "css"

LocatorRaises(selector) ==
    _create_locator_from_selector(selector) \in {"invalid_selector_syntax", "contains_unsupported"}

\* selectors the engine cannot parse: the first call on their locator
\* (count) raises
MalformedSelectors == {<<"a","[">>}

EngineRejects(selector) == selector \in MalformedSelectors

\* ------------------------------------------------ the text expectation
Quotes == {"'", "\""}

\* smallest element of a non-empty set of integers
Min(S) == CHOOSE x \in S : \A y \in S : x <= y

\* the literal p occurs in s at position i
MatchAt(s, i, p) ==
    i + Len(p) - 1 <= Len(s) /\ SubSeq(s, i, i + Len(p) - 1) = p

\* the group of  prefix([^Q]+)Q  matched at position i of s, where the group
\* starts at index start; <<>> when there is no match there
GroupFrom(s, start, closing) ==
    LET closers == {j \in start..Len(s) : s[j] \in closing}
    IN  IF closers = {} \/ Min(closers) = start THEN <<>>
        ELSE SubSeq(s, start, Min(closers) - 1)

\* re.search(prefix + "([^']+)'", s): group(1) of the leftmost match, or None
SearchQuoted(s, prefix) ==
    LET hits == {i \in 1..Len(s) :
                   /\ MatchAt(s, i, prefix)
                   /\ GroupFrom(s, i + Len(prefix), {"'"}) # <<>>}
    IN  IF hits = {} THEN None
        ELSE GroupFrom(s, Min(hits) + Len(prefix), {"'"})

\* index of the first non-space character at or after i (Len(s)+1 if none)
SkipSpace(s, i) ==
    LET rest == {j \in i..Len(s) : ~IsSpace(s[j])}
    IN  IF rest = {} THEN Len(s) + 1 ELSE Min(rest)

\* re.search(r"contains\(text\(\),\s*['\"]([^'\"]+)['\"]", s)
SearchContainsText(s) ==
    LET prefix == S_contains_text
        open(i) == SkipSpace(s, i + Len(prefix))
        hits == {i \in 1..Len(s) :
                   /\ MatchAt(s, i, prefix)
                   /\ open(i) <= Len(s)
                   /\ s[open(i)] \in Quotes
                   /\ GroupFrom(s, open(i) + 1, Quotes) # <<>>}
    IN  IF hits = {} THEN None
        ELSE GroupFrom(s, open(Min(hits)) + 1, Quotes)

_extract_text_expectation(selector) ==
    IF SearchQuoted(selector, S_text_eq) # None
    THEN SearchQuoted(selector, S_text_eq)
    ELSE IF SearchQuoted(selector, S_normalize_eq) # None
    THEN SearchQuoted(selector, S_normalize_eq)
    ELSE SearchContainsText(selector)

\* ------------------------------------------------- the strategy document
\* selectors, element types and texts used by the documents of the model
Sel_go       == <<"#","g","o">>
Sel_in       == <<"/","/","i","[","t","e","x","t","(",")","=","'","H","i","'","]">>
Sel_menu     == <<"#","m">>
Sel_xpath_Hi == <<"/","/","a","[","t","e","x","t","(",")","=","'","H","i","'","]">>
Sel_bad      == <<"a","[">>
Sel_norm_Hi  == <<"/","/","b","[","n","o","r","m","a","l","i","z","e","-","s","p","a","c","e","(",")","=","'","H","i","'","]">>
Sel_has_Hi   == <<"/","/","a","[","c","o","n","t","a","i","n","s","(","t","e","x","t","(",")",","," ","\"","H","i","\"",")","]">>
Sel_contains == <<"p",":","c","o","n","t","a","i","n","s","(","'","x","'",")">>
Sel_script   == <<"w","i","n","d","o","w",".","l","o","c","a","t","i","o","n","=","'","/","'">>

T_Nav_Button    == <<"N","a","v"," ","B","u","t","t","o","n">>
T_text_field    == <<"t","e","x","t"," ","f","i","e","l","d">>
T_text          == <<"t","e","x","t">>

Txt_Hi == <<"H","i">>
Txt_No == <<"N","o">>
Val_abc == <<"a","b","c">>
Href_page == <<"/","p">>
Href_void == <<"j","a","v","a","s","c","r","i","p","t",":","v","o","i","d","(","0",")">>

\* one entry of ai_enhanced_target_elements, as element.get(...) reads it
Element(t, primary, action, purpose) ==
    [element_type |-> t,
     selector_strategy |-> [primary |-> primary, reasoning |-> "r"],
     action |-> action,
     purpose |-> purpose]

\* the elements the documents of the model are made of, in the order in
\* which a document lists them
PoolOrder ==
    << Element(T_Nav_Button, Sel_has_Hi,   S_Click_sp, "e1"),
       Element(S_link,       Sel_xpath_Hi, S_navigate, "e2"),
       Element(S_menu,       Sel_norm_Hi,  S_hover,    "e5"),
       Element(T_text_field, Sel_in,       S_type,     "e4"),
       Element(T_text,       Sel_menu,     S_verify,   "e8"),
       Element(T_text,       Sel_in,       S_verify,   "e13"),
       Element(T_text,       Sel_contains, S_verify,   "e3"),
       Element(S_button,     Sel_contains, S_submit,   "e6"),
       Element(S_link,       S_NA,         S_click,    "e7"),
       Element(S_link,       Sel_script,   S_hover,    "e14"),
       Element(S_link,       Sel_go,       <<>>,       "e9"),
       Element(S_link,       <<>>,         S_click,    "e10"),
       Element(S_button,     Sel_bad,      S_click,    "e12"),
       Element(S_button,     Sel_go,       None,       "e11") >>

ElementPool == {PoolOrder[i] : i \in 1..Len(PoolOrder)}

\* sequences over S of length at most n
RECURSIVE SeqsUpTo(_, _)
SeqsUpTo(S, n) ==
    IF n = 0 THEN {<<>>}
    ELSE LET shorter == SeqsUpTo(S, n - 1)
         IN  shorter \cup {Append(q, x) : q \in {r \in shorter : Len(r) = n - 1}, x \in S}

\* the lists of target elements of the documents: up to MaxElements
\* elements of the pool, in pool order
TargetElements ==
    LET increasing == {s \in SeqsUpTo(1..Len(PoolOrder), MaxElements) :
                          \A i \in 1..(Len(s) - 1) : s[i] < s[i + 1]}
    IN  {[i \in 1..Len(s) |-> PoolOrder[s[i]]] : s \in increasing}

\* what json.loads(test_strategy) gives: a JSONDecodeError, a value that is
\* not an object, or an object with its ai_enhanced_target_elements
Documents ==
    {[kind |-> "malformed"], [kind |-> "not_object"]}
    \cup {[kind |-> "object", ai_enhanced_target_elements |-> es] :
             es \in TargetElements}

json_loads_lenient(document) == "ok"

\* json.loads(test_strategy): raises JSONDecodeError for an unparseable
\* document
json_loads(document) ==
    IF document.kind = "malformed" THEN "JSONDecodeError" ELSE "ok"

\* extract_primary_selectors_from_strategy, for a document that is an object
RECURSIVE ExtractFrom(_, _)
ExtractFrom(target_elements, i) ==
    IF i > Len(target_elements) THEN <<>>
    ELSE LET element == target_elements[i]
             primary == element.selector_strategy.primary
             rest    == ExtractFrom(target_elements, i + 1)
         IN  IF Truthy(primary)
             THEN <<[selector       |-> primary,
                     element_index  |-> i - 1,
                     element_type   |-> element.element_type,
                     purpose        |-> element.purpose,
                     element_action |-> element.action,
                     reasoning      |-> element.selector_strategy.reasoning]>> \o rest
             ELSE rest

extract_primary_selectors_from_strategy_renumbered(strategy_data) ==
    LET kept == ExtractFrom(strategy_data.ai_enhanced_target_elements, 1)
    IN  [n \in 1..Len(kept) |-> [kept[n] EXCEPT !.element_index = n - 1]]

extract_primary_selectors_from_strategy(strategy_data) ==
    ExtractFrom(strategy_data.ai_enhanced_target_elements, 1)

\* ------------------------------------------------------ the page element
\* What the browser answers about the first element matching a selector at
\* the moment of one probe.  raises names the browser call that throws:
\* "action" (the first call of the action's branch),
\* "text_content" (the read of the text-expectation check) or "none".
NoBox == [none |-> TRUE]
Box(w, h) == [width |-> w, height |-> h]
BoundingBoxes == {NoBox, Box(0, 10), Box(10, 0), Box(10, 10)}
Texts  == {<<>>, Txt_Hi, Txt_No}
Hrefs  == {None, S_hash, Href_void, Href_page}
FillModes == {"accept", "ignore", "raise"}

DefaultEl ==
    [raises |-> "none", count |-> 1, visible |-> TRUE,
     enabled |-> TRUE, bounding_box |-> Box(10, 10),
     editable |-> TRUE, fill |-> "accept",
     text |-> Txt_Hi, has_value |-> FALSE, has_attribute |-> FALSE,
     href |-> Href_page, onclick |-> FALSE, cursor_pointer |-> FALSE]

\* states in which a pre-check stops the probe: no element, a hidden
\* element, a hidden element that no action-specific check would accept
PreStates ==
    { [DefaultEl EXCEPT !.count = 0],
      [DefaultEl EXCEPT !.visible = FALSE],
      [DefaultEl EXCEPT !.visible = FALSE, !.enabled = FALSE, !.fill = "ignore",
                        !.text = Txt_No] }

\* states in which the action-specific check stops the probe; in the last
\* of each action the text of the element is not the expected one either
FailingStates(action) ==
    IF action = S_click THEN
        {[DefaultEl EXCEPT !.raises = "action"], [DefaultEl EXCEPT !.enabled = FALSE]}
        \cup {[DefaultEl EXCEPT !.bounding_box = b] : b \in BoundingBoxes \ {Box(10, 10)}}
        \cup {[DefaultEl EXCEPT !.enabled = FALSE, !.text = Txt_No]}
    ELSE IF action = S_type THEN
        {[DefaultEl EXCEPT !.raises = "action"], [DefaultEl EXCEPT !.editable = FALSE]}
        \cup {[DefaultEl EXCEPT !.fill = m] : m \in FillModes \ {"accept"}}
        \cup {[DefaultEl EXCEPT !.editable = FALSE, !.text = Txt_No]}
    ELSE IF action \in {S_hover, S_verify, S_navigate} THEN
        {[DefaultEl EXCEPT !.raises = "action"],
         [DefaultEl EXCEPT !.raises = "action", !.text = Txt_No]}
    ELSE {}

\* states in which the action-specific check lets the probe go on; verify
\* and navigate read more of the element
PassingStates(action) ==
    IF action = S_verify THEN
        {[DefaultEl EXCEPT !.has_value = v, !.has_attribute = a] :
            v \in BOOLEAN, a \in BOOLEAN}
    ELSE IF action = S_navigate THEN
        {[DefaultEl EXCEPT !.href = h] : h \in Hrefs}
        \cup {[DefaultEl EXCEPT !.href = None, !.onclick = TRUE],
              [DefaultEl EXCEPT !.href = None, !.cursor_pointer = TRUE]}
    ELSE {DefaultEl}

ElementStates(action) ==
    PreStates
    \cup FailingStates(action)
    \cup {[e EXCEPT !.text = t] : e \in PassingStates(action), t \in Texts}
    \cup {[DefaultEl EXCEPT !.raises = "text_content"]}

\* element_action as _test_single_selector normalises it
NormAction(selector_info) == Strip(Lower(selector_info.element_action))

\* ------------------------------------------------------- the type probe
\* value of the element after fill(text) in the given fill mode
Fill(mode, value, text) == IF mode = "accept" THEN text ELSE value

TypeProbe_ignores_editable(el, original) ==
    IF el.raises = "action"
    THEN [error |-> "input_test_failed", value |-> original]
    ELSE [error |-> "None", value |-> original]

\* the type branch on an element whose value is original: the error it
\* records ("None" when the branch falls through) and the value it leaves
TypeProbe(el, original) ==
    IF el.raises = "action"
    THEN [error |-> "input_test_failed", value |-> original]
    ELSE IF ~el.editable
    THEN [error |-> "not_editable", value |-> original]
    ELSE IF el.fill = "raise"
    THEN [error |-> "input_test_failed", value |-> <<>>]
    ELSE LET current_value == Fill(el.fill, <<>>, S_test)
         IN  IF ~Contains(current_value, S_test)
             THEN [error |-> "input_not_accepted", value |-> current_value]
             ELSE [error |-> "None",
                   value |-> IF Truthy(original)
                             THEN Fill(el.fill, <<>>, original) ELSE <<>>]

\* --------------------------------------------------- _test_single_selector
no_click_area_missing_only(bounding_box) == bounding_box = NoBox

\* not bounding_box or width == 0 or height == 0
no_click_area(bounding_box) ==
    \/ bounding_box = NoBox
    \/ bounding_box.width = 0
    \/ bounding_box.height = 0

Advisory_terminal(e) == [error |-> e, stop |-> TRUE]

\* a warning of the verify and navigate branches: the error is recorded and
\* the probe goes on
Advisory(e) == [error |-> e, stop |-> FALSE]

\* the action-specific branch: the error it records and whether it returns
ActionOutcome(action, el, original) ==
    LET failed(e) == [error |-> e, stop |-> TRUE]
        passed    == [error |-> "None", stop |-> FALSE]
    IN  IF action = S_click THEN
            IF el.raises = "action" THEN failed("click_test_failed")
            ELSE IF ~el.enabled THEN failed("not_clickable")
            ELSE IF no_click_area(el.bounding_box) THEN failed("no_click_area")
            ELSE passed
        ELSE IF action = S_type THEN
            LET t == TypeProbe(el, original)
            IN  IF t.error # "None" THEN failed(t.error) ELSE passed
        ELSE IF action = S_hover THEN
            IF el.raises = "action" THEN failed("hover_test_failed") ELSE passed
        ELSE IF action = S_verify THEN
            IF el.raises = "action" THEN failed("verify_test_failed")
            ELSE IF ~(Truthy(el.text) \/ el.has_value \/ el.has_attribute)
                 THEN Advisory("no_verifiable_content")
            ELSE passed
        ELSE IF action = S_navigate THEN
            LET has_navigation_signs ==
                    \/ (Truthy(el.href) /\ el.href # S_hash /\ ~StartsWith(el.href, S_js_void))
                    \/ el.onclick
                    \/ el.cursor_pointer
            IN  IF el.raises = "action" THEN failed("navigate_test_failed")
                ELSE IF ~has_navigation_signs THEN Advisory("no_navigation_signs")
                ELSE passed
        ELSE failed("unknown_action")

InvalidAction_strict(action) == action \notin VALID_ACTIONS

InvalidAction_unchecked(action) == FALSE

\* the up-front check of the action
InvalidAction(action) == Truthy(action) /\ action \notin VALID_ACTIONS

PreCheck_found_only(el) == IF el.count = 0 THEN "not_found" ELSE "ok"

\* the common pre-checks: the count of the locator, then the visibility of
\* its first element
PreCheck(el) ==
    IF el.count = 0 THEN "not_found"
    ELSE IF ~el.visible THEN "not_visible"
    ELSE "ok"

\* the probe reaches the action-specific branch
PreChecksPass(selector_info, el) ==
    /\ ~InvalidAction(NormAction(selector_info))
    /\ ~LocatorRaises(selector_info.selector)
    /\ ~EngineRejects(selector_info.selector)
    /\ PreCheck(el) = "ok"

TextMatches_any(text_expectation, actual_text) == TRUE

\* text_expectation in actual_text
TextMatches(text_expectation, actual_text) == Contains(actual_text, text_expectation)

\* the result returned for an action that is not valid
EarlyResult(selector_info, page_url) ==
    [selector     |-> selector_info.selector,
     purpose      |-> selector_info.purpose,
     element_type |-> selector_info.element_type,
     success      |-> FALSE,
     error        |-> "unsupported_action",
     current_url  |-> page_url]

\* the result as first built, before any check
BaseResult_stale(selector_info, page_url) ==
    [selector        |-> selector_info.selector,
     purpose         |-> selector_info.purpose,
     element_type    |-> selector_info.element_type,
     success         |-> FALSE,
     element_found   |-> FALSE,
     element_visible |-> FALSE,
     text_matches    |-> "None",
     error           |-> "None",
     current_url     |-> "home"]

BaseResult(selector_info, page_url) ==
    [selector        |-> selector_info.selector,
     purpose         |-> selector_info.purpose,
     element_type    |-> selector_info.element_type,
     success         |-> FALSE,
     element_found   |-> FALSE,
     element_visible |-> FALSE,
     text_matches    |-> "None",
     error           |-> "None",
     current_url     |-> page_url]

_test_single_selector_silent(selector_info, page_url, el, original) ==
    BaseResult(selector_info, page_url)

\* the ValidationResult of one probe; original is the value of the element
_test_single_selector(selector_info, page_url, el, original) ==
    LET selector == selector_info.selector
        action   == NormAction(selector_info)
        result   == BaseResult(selector_info, page_url)
        \* the outer except: the error text depends on the selector
        caught(r, e) ==
            [r EXCEPT !.error = IF Contains(selector, S_contains_paren)
                                THEN "contains_unsupported" ELSE e]
        locator  == _create_locator_from_selector(selector)
        found    == [result EXCEPT !.element_found = TRUE]
        visible  == [found EXCEPT !.element_visible = el.visible]
        outcome  == ActionOutcome(action, el, original)
        checked  == [visible EXCEPT !.error = outcome.error]
        text_expectation == _extract_text_expectation(selector)
    IN  IF InvalidAction(action) THEN EarlyResult(selector_info, page_url)
        ELSE IF LocatorRaises(selector) THEN caught(result, locator)
        ELSE IF EngineRejects(selector) THEN caught(result, "browser_error")
        ELSE IF PreCheck(el) = "not_found" THEN [result EXCEPT !.error = "not_found"]
        ELSE IF PreCheck(el) = "not_visible" THEN [visible EXCEPT !.error = "not_visible"]
        ELSE IF outcome.stop THEN checked
        ELSE IF Truthy(text_expectation) THEN
            IF el.raises = "text_content" THEN caught(checked, "browser_error")
            ELSE IF ~TextMatches(text_expectation, el.text)
                 THEN [checked EXCEPT !.text_matches = "False", !.error = "text_mismatch"]
            ELSE [checked EXCEPT !.text_matches = "True", !.success = TRUE]
        ELSE [checked EXCEPT !.success = TRUE]

ValueAfterProbe_clears(selector_info, el, original) ==
    IF PreChecksPass(selector_info, el) THEN <<>> ELSE original

\* the value of the probed element after the probe
ValueAfterProbe(selector_info, el, original) ==
    IF PreChecksPass(selector_info, el) /\ NormAction(selector_info) = S_type
    THEN TypeProbe(el, original).value
    ELSE original

\* ------------------------------------------------------------ navigation
NavigationKeywords == {S_link, S_button, S_menu, S_nav}

_should_attempt_navigation_any_result(result, selector_info) ==
    LET action       == NormAction(selector_info)
        element_type == Lower(selector_info.element_type)
    IN  /\ action \in {S_click, S_navigate}
        /\ \E keyword \in NavigationKeywords : Contains(element_type, keyword)

_should_attempt_navigation(result, selector_info) ==
    IF ~result.success THEN FALSE
    ELSE LET action       == NormAction(selector_info)
             element_type == Lower(selector_info.element_type)
             is_navigation_action  == action \in {S_click, S_navigate}
             is_navigation_element ==
                 \E keyword \in NavigationKeywords : Contains(element_type, keyword)
         IN  is_navigation_action /\ is_navigation_element

\* ------------------------------------------- _calculate_validation_results
successful_selectors(validation_results) ==
    Cardinality({i \in 1..Len(validation_results) : validation_results[i].success})

failed_selectors_by_error(validation_results) ==
    Cardinality({i \in 1..Len(validation_results) : validation_results[i].error # "None"})

failed_selectors(validation_results) ==
    Len(validation_results) - successful_selectors(validation_results)

\* Python floats (binary64), for the non-negative values the aggregator
\* computes.  A float is zero, or bits * 2^exp where bits is a natural number
\* of exactly 53 binary digits, written least significant digit first.
FloatZero == [bits |-> <<>>, exp |-> 0]

RECURSIVE IntBits(_)
\* the binary digits of a natural number, least significant first
IntBits(n) == IF n = 0 THEN <<>> ELSE <<n % 2>> \o IntBits(n \div 2)

RECURSIVE BitsToInt(_)
BitsToInt(a) == IF a = <<>> THEN 0 ELSE a[1] + 2 * BitsToInt(Tail(a))

Bit(a, i) == IF i >= 1 /\ i <= Len(a) THEN a[i] ELSE 0

ShiftLeft(a, n) == [i \in 1..n |-> 0] \o a

\* without leading zero digits
Trim(a) ==
    LET ones == {i \in 1..Len(a) : a[i] = 1}
    IN  IF ones = {} THEN <<>>
        ELSE SubSeq(a, 1, CHOOSE i \in ones : \A j \in ones : j <= i)

RECURSIVE Pow2(_)
Pow2(k) == IF k = 0 THEN 1 ELSE 2 * Pow2(k - 1)

\* the arithmetic on digits goes a group of GroupWidth digits at a time
GroupWidth == 12

\* the group of digits of a that starts at digit pos, as a number
Group(a, pos) ==
    BitsToInt([i \in 1..GroupWidth |-> Bit(a, pos + i - 1)])

\* the GroupWidth low digits of a number
LowDigits(v) == [i \in 1..GroupWidth |-> (v \div Pow2(i - 1)) % 2]

RECURSIVE AddFrom(_, _, _, _)
AddFrom(a, b, pos, carry) ==
    IF pos > Len(a) /\ pos > Len(b) THEN IntBits(carry)
    ELSE LET v == Group(a, pos) + Group(b, pos) + carry
         IN  LowDigits(v) \o AddFrom(a, b, pos + GroupWidth, v \div Pow2(GroupWidth))

AddBits(a, b) == Trim(AddFrom(a, b, 1, 0))

RECURSIVE MulFrom(_, _, _, _)
MulFrom(a, n, pos, carry) ==
    IF pos > Len(a) THEN IntBits(carry)
    ELSE LET v == Group(a, pos) * n + carry
         IN  LowDigits(v) \o MulFrom(a, n, pos + GroupWidth, v \div Pow2(GroupWidth))

\* the digits of a times the natural number n
MulSmall(a, n) == Trim(MulFrom(a, n, 1, 0))

\* a <= b, as numbers
LeBits(a, b) ==
    LET width == IF Len(a) > Len(b) THEN Len(a) ELSE Len(b)
        differ == {i \in 1..width : Bit(a, i) # Bit(b, i)}
    IN  differ = {} \/ Bit(b, CHOOSE i \in differ : \A j \in differ : j <= i) = 1

\* the float nearest to digits * 2^exp (ties to even), digits not zero
RoundTo53(digits, exp) ==
    LET p == Trim(digits)
        d == Len(p) - 53
        kept == SubSeq(p, d + 1, Len(p))
        sticky == \E i \in 1..(d - 1) : p[i] = 1
        up == p[d] = 1 /\ (sticky \/ kept[1] = 1)
        m == IF up THEN AddBits(kept, <<1>>) ELSE kept
    IN  IF d <= 0 THEN [bits |-> ShiftLeft(p, 0 - d), exp |-> exp + d]
        ELSE IF Len(m) = 54 THEN [bits |-> Tail(m), exp |-> exp + d + 1]
        ELSE [bits |-> m, exp |-> exp + d]

RECURSIVE DivSteps(_, _, _)
\* the long division of r by t for r < t, a group of digits at a time: the
\* digits after the binary point, most significant first, and the remainder
DivSteps(r, t, widths) ==
    IF widths = <<>> THEN [bits |-> <<>>, rem |-> r]
    ELSE LET w == Head(widths)
             c == r * Pow2(w)
             rest == DivSteps(c % t, t, Tail(widths))
         IN  [bits |-> [i \in 1..w |-> ((c \div t) \div Pow2(w - i)) % 2]
                       \o rest.bits,
              rem |-> rest.rem]

RECURSIVE Normalise(_, _, _)
\* the least k with f * 2^k >= t
Normalise(f, t, k) == IF f >= t THEN k ELSE Normalise(2 * f, t, k + 1)

\* f / t for integers 0 <= f, 0 < t: the correctly rounded quotient
FloatDiv(f, t) ==
    IF f = 0 THEN FloatZero
    ELSE LET k == Normalise(f, t, 0)
             q == DivSteps(f * Pow2(k) - t, t, <<9, 9, 9, 9, 9, 8>>)
             msb_last == [i \in 1..53 |-> q.bits[54 - i]]
             sticky == IF q.rem # 0 THEN 1 ELSE 0
         IN  RoundTo53(<<sticky>> \o msb_last \o <<1>>, 0 - k - 54)

\* x * n for a natural number n (exactly representable), correctly rounded
FloatMul(x, n) ==
    IF x = FloatZero \/ n = 0 THEN FloatZero
    ELSE RoundTo53(MulSmall(x.bits, n), x.exp)

\* x <= n for a natural number n
FloatLe(x, n) ==
    x = FloatZero \/ LeBits(x.bits, ShiftLeft(IntBits(n), 0 - x.exp))

\* the largest number of items a run of the model aggregates
MaxTotal == MaxElements + MaxReportItems

\* a float x > 0 rounded to one decimal (ties to even), in tenths
Tenths(x) ==
    LET p == MulSmall(x.bits, 10)
        d == 0 - x.exp
        whole == BitsToInt(SubSeq(p, d + 1, Len(p)))
        sticky == \E i \in 1..(d - 1) : p[i] = 1
        up == Bit(p, d) = 1 /\ (sticky \/ whole % 2 = 1)
    IN  IF up THEN whole + 1 ELSE whole

\* (failed / total) * 100 for every count of the model, and how a message
\* shows it
RateTable ==
    UNION {{[total |-> total, failed |-> failed,
             rate |-> FloatMul(FloatDiv(failed, total), 100),
             tenths |-> IF failed = 0 THEN 0
                        ELSE Tenths(FloatMul(FloatDiv(failed, total), 100))] :
                failed \in 0..total} : total \in 1..MaxTotal}

RateOf(failed, total) ==
    (CHOOSE r \in RateTable : r.total = total /\ r.failed = failed).rate

failure_rate_empty_fails(failed, total) ==
    IF total = 0 THEN RateOf(1, 1) ELSE RateOf(failed, total)

failure_rate_of_successes(failed, total) ==
    IF total = 0 THEN FloatZero ELSE RateOf(total - failed, total)

\* failure_rate = (failed_selectors / total_selectors) * 100, in floats; 0
\* for an empty list
failure_rate(failed, total) ==
    IF total = 0 THEN FloatZero ELSE RateOf(failed, total)

validation_passed_lenient(rate) == FloatLe(rate, 50)

\* failure_rate <= 0: of the floats above, only zero
validation_passed(rate) == rate = FloatZero

IsFailure(r) == ~r.success

failed_details_reversed(validation_results) ==
    LET f == SelectSeq(validation_results, IsFailure)
    IN  [i \in 1..Len(f) |-> f[Len(f) + 1 - i]]

failed_details(validation_results) == SelectSeq(validation_results, IsFailure)

_calculate_validation_results(validation_results) ==
    [total_selectors      |-> Len(validation_results),
     successful_selectors |-> successful_selectors(validation_results),
     failed_selectors     |-> failed_selectors(validation_results),
     failure_rate         |-> failure_rate(failed_selectors(validation_results),
                                           Len(validation_results)),
     failed_details       |-> failed_details(validation_results),
     all_results          |-> validation_results,
     validation_passed    |-> validation_passed(
                                 failure_rate(failed_selectors(validation_results),
                                              Len(validation_results)))]

\* ------------------------------------------------------ browser and page
Urls == {"home", "page1"}

\* what launching answers: sync_playwright() fails to start, chromium.launch
\* raises, new_page raises, or a page is ready
Launches == {"start_fails", "launch_fails", "new_page_fails", "ok"}

NoResponse == [none |-> TRUE]
Response(status) == [status |-> status]
Responses == {NoResponse, Response(200), Response(400), Response(404)}

\* what the initial load answers: goto raises, or returns a response and
\* the page does or does not become network-idle within the timeout
Loads ==
    {[goto_raises |-> TRUE, response |-> NoResponse, networkidle |-> TRUE]}
    \cup {[goto_raises |-> FALSE, response |-> r, networkidle |-> n] :
             r \in Responses, n \in BOOLEAN}

_load_page_lenient(load) ==
    IF load.goto_raises THEN "ValidationError"
    ELSE IF load.response = NoResponse \/ load.response.status > 400 THEN "ValidationError"
    ELSE IF ~load.networkidle THEN "ValidationError"
    ELSE "ok"

\* _load_page: returns ("ok") or raises ValidationError
_load_page(load) ==
    IF load.goto_raises THEN "ValidationError"
    ELSE IF load.response = NoResponse \/ load.response.status >= 400 THEN "ValidationError"
    ELSE IF ~load.networkidle THEN "ValidationError"
    ELSE "ok"

sync_playwright_exit_leaky(b) == b

\* leaving the "with sync_playwright()" block stops the driver, which closes
\* the browser it launched
sync_playwright_exit(b) == IF b = "open" THEN "closed" ELSE b

\* the inputs on the page whose value the model tracks: the targets of the
\* type elements of the pool
PageInputs ==
    {e.selector_strategy.primary :
        e \in {x \in ElementPool : x.action # None /\ Strip(Lower(x.action)) = S_type}}

\* ------------------------------------------------------------------ state
VARIABLES
    entry,              \* the call modelled: "runner" or "suite"
    test_strategy,      \* the strategy document handed to validate_strategy
    selectors,          \* the SelectorSpec list handed to the runner
    pc,                 \* the position of the run
    browser,            \* "none", "open" or "closed"
    launch,             \* what launching answered ("pending" before)
    page_load,          \* what the initial load answered (NotLoaded before)
    url,                \* self.page.url
    value,              \* the value of each tracked input of the page
    element,            \* what the browser answered about the first element
                        \* during the probe just made (NoElement otherwise)
    validation_results, \* the local list of _execute_sequential_validation
    report,             \* what the runner returned (NoReport if nothing)
    runner_outcome,     \* "pending", "returned" or "ValidationError"
    strategy_outcome,   \* "pending", "returned", "ValidationError", "Exception"
    strategy_result,    \* what validate_strategy returned, or its error text
    suite_result,       \* what generate_complete_test_suite returned
    self_validation_results,
                        \* the field self.validation_results of the validator
    earlier_reports,    \* history: what the earlier calls of the runner on
                        \* this validator returned
    trace               \* history: the browser and pipeline operations so far

vars == <<entry, test_strategy, selectors, pc, browser, launch, page_load, url,
          value, element, validation_results, report, runner_outcome, strategy_outcome,
          strategy_result, suite_result, self_validation_results,
          earlier_reports, trace>>

NoReport  == [none |-> TRUE]
NoResult  == [none |-> TRUE]
NotLoaded == [none |-> TRUE]
NoElement == [none |-> TRUE]

\* an operation, the selector it is for (0 if none), the page url after it
Event(op, i, u) == [op |-> op, i |-> i, url |-> u]

FirstThree_all(details) ==
    [i \in 1..Len(details) |->
        [purpose |-> details[i].purpose, error |-> details[i].error]]

\* f"{failure_rate:.1f}": the rate rounded to one decimal, as a number of
\* tenths
FormatRate(rate) ==
    IF rate = FloatZero THEN 0
    ELSE (CHOOSE r \in RateTable : r.rate = rate).tenths

\* results['failed_details'][:3], as the lines of the error message
FirstThree(details) ==
    [i \in 1..(IF Len(details) < 3 THEN Len(details) ELSE 3) |->
        [purpose |-> details[i].purpose, error |-> details[i].error]]

\* what validate_strategy does with the results of the runner
strategy_check_always_returns(results) == "returned"

strategy_check(results) ==
    IF ~results.validation_passed THEN "ValidationError" ELSE "returned"

validate_strategy_before_generation_open(outcome) == TRUE

\* validate_strategy_before_generation: False on ValidationError, True when
\* validate_strategy returned and also when it raised anything else
validate_strategy_before_generation(outcome) == outcome # "ValidationError"

\* validate_strategy is left with the given outcome: the handlers of
\* validate_strategy_before_generation and the gate of step 3 of
\* generate_complete_test_suite
StrategyLeft(outcome, result) ==
    /\ strategy_outcome' = outcome
    /\ strategy_result' = result
    /\ IF validate_strategy_before_generation(outcome)
       THEN /\ pc' = "generate"
            /\ UNCHANGED suite_result
       ELSE /\ pc' = "done"
            /\ suite_result' = [success |-> FALSE, error |-> "validation_failed"]

\* validate_selectors_sequentially raised ValidationError: it propagates
\* through validate_strategy
RunnerRaised ==
    /\ runner_outcome' = "ValidationError"
    /\ UNCHANGED report
    /\ IF entry = "runner"
       THEN /\ pc' = "done"
            /\ UNCHANGED <<strategy_outcome, strategy_result, suite_result>>
       ELSE StrategyLeft("ValidationError", [error |-> "runner_error"])

\* validate_selectors_sequentially returned results: the rest of
\* validate_strategy
RunnerReturned(results) ==
    /\ runner_outcome' = "returned"
    /\ report' = results
    /\ IF entry = "runner"
       THEN /\ pc' = "done"
            /\ UNCHANGED <<strategy_outcome, strategy_result, suite_result>>
       ELSE IF strategy_check(results) = "ValidationError"
       THEN StrategyLeft("ValidationError",
                         [error          |-> "validation_failed",
                          failure_rate   |-> FormatRate(results.failure_rate),
                          failed_details |-> FirstThree(results.failed_details)])
       ELSE StrategyLeft("returned",
                         [validation_passed  |-> TRUE,
                          validation_results |-> results])

Init ==
    /\ entry \in {"runner", "suite"}
    /\ test_strategy \in Documents
    /\ entry = "runner" => /\ test_strategy.kind = "object"
                           /\ Len(test_strategy.ai_enhanced_target_elements)
                                  <= MaxDirectSelectors
    /\ selectors = IF entry = "runner"
                   THEN extract_primary_selectors_from_strategy(test_strategy)
                   ELSE <<>>
    /\ pc = IF entry = "runner" THEN "launch" ELSE "validate_strategy"
    /\ browser = "none"
    /\ launch = "pending"
    /\ page_load = NotLoaded
    /\ url = "about:blank"
    /\ value = [s \in PageInputs |-> <<>>]
    /\ element = NoElement
    /\ validation_results = <<>>
    /\ report = NoReport
    /\ runner_outcome = "pending"
    /\ strategy_outcome = "pending"
    /\ strategy_result = NoResult
    /\ suite_result = NoResult
    /\ self_validation_results = <<>>
    /\ earlier_reports = <<>>
    /\ trace = <<>>

\* step 3 of generate_complete_test_suite up to the call of the runner:
\* validate_strategy parses the document, extracts the selectors and
\* returns at once when there are none
ValidateStrategy ==
    /\ pc = "validate_strategy"
    /\ IF json_loads(test_strategy) = "JSONDecodeError" THEN
            /\ StrategyLeft("ValidationError", [error |-> "format_error"])
            /\ UNCHANGED selectors
       ELSE IF test_strategy.kind # "object" THEN
            \* strategy_data.get raises AttributeError
            /\ StrategyLeft("Exception", [error |-> "AttributeError"])
            /\ UNCHANGED selectors
       ELSE LET extracted == extract_primary_selectors_from_strategy(test_strategy)
            IN  /\ selectors' = extracted
                /\ IF extracted = <<>>
                   THEN StrategyLeft("returned",
                                     [validation_passed |-> TRUE,
                                      message |-> "no_primary_selectors"])
                   ELSE /\ pc' = "launch"
                        /\ UNCHANGED <<strategy_outcome, strategy_result, suite_result>>
    /\ UNCHANGED <<self_validation_results, earlier_reports>>
    /\ UNCHANGED <<entry, test_strategy, browser, launch, page_load, url, value,
                   element, validation_results, report, runner_outcome, trace>>

\* validate_selectors_sequentially up to the call of the sequential run
Launch ==
    /\ pc = "launch"
    /\ \E l \in Launches :
        /\ launch' = l
        /\ trace' = Append(trace, Event("launch", 0, url))
        /\ IF l = "ok"
           THEN /\ browser' = "open"
                /\ pc' = "load"
                /\ UNCHANGED <<report, runner_outcome, strategy_outcome,
                               strategy_result, suite_result>>
           ELSE \* the exception leaves the with block and is wrapped
                /\ browser' = sync_playwright_exit(
                                  IF l = "new_page_fails" THEN "open" ELSE "none")
                /\ RunnerRaised
    /\ UNCHANGED <<self_validation_results, earlier_reports>>
    /\ UNCHANGED <<entry, test_strategy, selectors, page_load, url, value,
                   element, validation_results>>

\* the initial _load_page
LoadPage ==
    /\ pc = "load"
    /\ \E l \in Loads :
        /\ page_load' = l
        /\ trace' = Append(trace, Event("goto", 0, IF _load_page(l) = "ok"
                                                  THEN "home" ELSE url))
        /\ IF _load_page(l) = "ok"
           THEN /\ url' = "home"
                /\ value' = [s \in PageInputs |-> Val_abc]
                /\ pc' = IF Len(selectors) > 0 THEN "probe" ELSE "aggregate"
                /\ UNCHANGED <<browser, report, runner_outcome, strategy_outcome,
                               strategy_result, suite_result>>
           ELSE \* ValidationError is re-raised, leaves the with block, is wrapped
                /\ browser' = sync_playwright_exit(browser)
                /\ RunnerRaised
                /\ UNCHANGED <<url, value>>
    /\ UNCHANGED <<self_validation_results, earlier_reports>>
    /\ UNCHANGED <<entry, test_strategy, selectors, launch, element,
                   validation_results>>

NextStep_early(i) == "aggregate"

NextStep_again(i) == "probe"

\* where the loop goes after step i: the next selector, or the aggregation
NextStep(i) == IF i < Len(selectors) THEN "probe" ELSE "aggregate"

\* one iteration of the loop up to the navigation gate: probe selector i,
\* append its result
TestSelector ==
    /\ pc = "probe"
    /\ LET i == Len(validation_results) + 1
           selector_info == selectors[i]
           selector == selector_info.selector
       IN  /\ trace' = Append(trace, Event("probe", i, url))
           /\ IF selector_info.element_action = None
              THEN \* None.lower() raises AttributeError outside the try of
                   \* the probe: wrapped in ValidationError, the run is left
                   /\ browser' = sync_playwright_exit(browser)
                   /\ RunnerRaised
                   /\ UNCHANGED <<validation_results, value, element>>
              ELSE \E el \in ElementStates(NormAction(selector_info)) :
                   LET original == IF selector \in PageInputs
                                   THEN value[selector] ELSE <<>>
                       result == _test_single_selector(selector_info, url, el, original)
                   IN  /\ element' = el
                       /\ validation_results' = Append(validation_results, result)
                       /\ value' = IF selector \in PageInputs
                                   THEN [value EXCEPT ![selector] =
                                            ValueAfterProbe(selector_info, el, original)]
                                   ELSE value
                       /\ pc' = IF _should_attempt_navigation(result, selector_info)
                                THEN "navigate" ELSE NextStep(i)
                       /\ UNCHANGED <<browser, report, runner_outcome,
                                      strategy_outcome, strategy_result, suite_result>>
    /\ UNCHANGED <<self_validation_results, earlier_reports>>
    /\ UNCHANGED <<entry, test_strategy, selectors, launch, page_load, url>>

NavigationOutcomes == {"click_raises", "settled", "settle_timeout"}

AttemptNavigation_aborting ==
    /\ pc = "navigate"
    /\ trace' = Append(trace, Event("click", Len(validation_results), url))
    /\ browser' = sync_playwright_exit(browser)
    /\ RunnerRaised
    /\ element' = NoElement
    /\ UNCHANGED <<self_validation_results, earlier_reports>>
    /\ UNCHANGED <<entry, test_strategy, selectors, launch, page_load, url, value,
                   validation_results>>

\* _attempt_navigation for the selector just probed
AttemptNavigation ==
    /\ pc = "navigate"
    /\ LET i == Len(validation_results)
           selector_info == selectors[i]
       IN  \E o \in NavigationOutcomes, new_url \in Urls :
            /\ IF LocatorRaises(selector_info.selector)
               THEN UNCHANGED <<url, trace>>
               ELSE /\ url' = IF o = "click_raises" THEN url ELSE new_url
                    /\ trace' = Append(trace, Event("click", i, url'))
            /\ pc' = NextStep(i)
    /\ element' = NoElement
    /\ UNCHANGED <<self_validation_results, earlier_reports>>
    /\ UNCHANGED <<entry, test_strategy, selectors, browser, launch, page_load,
                   value, validation_results, report, runner_outcome,
                   strategy_outcome, strategy_result, suite_result>>

\* the end of the sequential run: aggregate, return through the with block
CalculateResults ==
    /\ pc = "aggregate"
    /\ trace' = Append(trace, Event("aggregate", 0, url))
    /\ browser' = sync_playwright_exit(browser)
    /\ element' = NoElement
    /\ RunnerReturned(_calculate_validation_results(validation_results))
    /\ UNCHANGED <<self_validation_results, earlier_reports>>
    /\ UNCHANGED <<entry, test_strategy, selectors, launch, page_load, url, value,
                   validation_results>>

\* step 4: generate_ai_driven_test_code
GenerateCode ==
    /\ pc = "generate"
    /\ trace' = Append(trace, Event("generate", 0, url))
    /\ pc' = "save"
    /\ UNCHANGED <<self_validation_results, earlier_reports>>
    /\ UNCHANGED <<entry, test_strategy, selectors, browser, launch, page_load, url,
                   value, element, validation_results, report, runner_outcome,
                   strategy_outcome, strategy_result, suite_result>>

\* step 5: save_generated_files, and the result of the suite
SaveFiles ==
    /\ pc = "save"
    /\ trace' = Append(trace, Event("save", 0, url))
    /\ suite_result' = [success |-> TRUE, validation_passed |-> TRUE]
    /\ pc' = "done"
    /\ UNCHANGED <<self_validation_results, earlier_reports>>
    /\ UNCHANGED <<entry, test_strategy, selectors, browser, launch, page_load, url,
                   value, element, validation_results, report, runner_outcome,
                   strategy_outcome, strategy_result>>

Next ==
    \/ ValidateStrategy
    \/ Launch
    \/ LoadPage
    \/ TestSelector
    \/ AttemptNavigation
    \/ CalculateResults
    \/ GenerateCode
    \/ SaveFiles

Spec == Init /\ [][Next]_vars

\* ------------------------------------------- the report of longer runs
\* The end of a run of validate_strategy over up to MaxReportItems items:
\* the state of _execute_sequential_validation after its loop, for items
\* that are never navigated (hover, verify) on elements that are present,
\* absent or hidden.
ReportPool == {PoolOrder[3], PoolOrder[5]}

ReportElementStates ==
    {DefaultEl, [DefaultEl EXCEPT !.count = 0], [DefaultEl EXCEPT !.visible = FALSE]}

InitReport ==
    \E es \in SeqsUpTo(ReportPool, MaxReportItems) \ {<<>>} :
    \E els \in [1..Len(es) -> ReportElementStates] :
        /\ entry = "suite"
        /\ test_strategy = [kind |-> "object", ai_enhanced_target_elements |-> es]
        /\ selectors = extract_primary_selectors_from_strategy(test_strategy)
        /\ pc = "aggregate"
        /\ browser = "open"
        /\ launch = "ok"
        /\ page_load = [goto_raises |-> FALSE, response |-> Response(200),
                        networkidle |-> TRUE]
        /\ url = "home"
        /\ value = [s \in PageInputs |-> Val_abc]
        /\ element = els[Len(es)]
        /\ validation_results =
              [i \in 1..Len(es) |->
                  _test_single_selector(selectors[i], "home", els[i], <<>>)]
        /\ report = NoReport
        /\ runner_outcome = "pending"
        /\ strategy_outcome = "pending"
        /\ strategy_result = NoResult
        /\ suite_result = NoResult
        /\ self_validation_results = <<>>
        /\ earlier_reports = <<>>
        /\ trace = <<Event("launch", 0, "about:blank"), Event("goto", 0, "home")>>
                   \o [i \in 1..Len(es) |-> Event("probe", i, "home")]

NextReport ==
    \/ CalculateResults
    \/ GenerateCode
    \/ SaveFiles

SpecReport == InitReport /\ [][NextReport]_vars

\* ------------------------------------------ several calls on one validator
\* validate_selectors_sequentially called up to MaxCalls times on the same
\* SelectorValidator, each time with a list of its own: no item, or clicks
\* on a navigation button, which pass or fail with the element met and may
\* take the page of that call elsewhere.
MaxCalls == 2

RunsPool == {PoolOrder[1]}

RunsDocuments ==
    {[kind |-> "object", ai_enhanced_target_elements |-> es] :
        es \in SeqsUpTo(RunsPool, MaxDirectSelectors)}

\* the calls of the runner made so far
Calls == Cardinality({k \in 1..Len(trace) : trace[k].op = "launch"})

NewResultsList_shared(previous) == previous

\* validation_results = [] at the top of _execute_sequential_validation:
\* the list of a call is a new local list, whatever the previous call left
NewResultsList(previous) == <<>>

InitRuns ==
    /\ Init
    /\ entry = "runner"
    /\ test_strategy \in RunsDocuments

\* the previous call is over (it returned or raised): the validator is
\* called again with another list; the new call gets its own browser, page
\* and local list
NextCall ==
    /\ pc = "done"
    /\ entry = "runner"
    /\ Calls < MaxCalls
    /\ \E document \in RunsDocuments :
        /\ test_strategy' = document
        /\ selectors' = extract_primary_selectors_from_strategy(document)
    /\ earlier_reports' = IF runner_outcome = "returned"
                          THEN Append(earlier_reports, report)
                          ELSE earlier_reports
    /\ pc' = "launch"
    /\ launch' = "pending"
    /\ page_load' = NotLoaded
    /\ url' = "about:blank"
    /\ value' = [s \in PageInputs |-> <<>>]
    /\ element' = NoElement
    /\ validation_results' = NewResultsList(validation_results)
    /\ report' = NoReport
    /\ runner_outcome' = "pending"
    /\ UNCHANGED <<entry, browser, strategy_outcome, strategy_result, suite_result,
                   self_validation_results, trace>>

NextRuns ==
    \/ Launch
    \/ LoadPage
    \/ TestSelector
    \/ AttemptNavigation
    \/ CalculateResults
    \/ NextCall

SpecRuns == InitRuns /\ [][NextRuns]_vars

\* ----------------------------------------------------------------- claims
\* the operations of the trace with the given name
Ops(op) == SelectSeq(trace, LAMBDA e : e.op = op)

\* the initial page was loaded successfully
PageLoaded ==
    /\ page_load # NotLoaded
    /\ ~page_load.goto_raises
    /\ page_load.response # NoResponse
    /\ page_load.response.status < 400
    /\ page_load.networkidle

\* C1: a type probe never leaves the value of the target element different
\* from its value before the probe, whatever the outcome of the probe: every
\* step that probes a selector leaves the value of every input as it was.
C1_TypeProbeRestoresValue == [][pc = "probe" => value' = value]_vars

\* C2: when the runner returns a report, totalSelectors is the number of
\* input SelectorSpecs and successfulSelectors + failedSelectors equals
\* totalSelectors, whatever the mixture of per-item outcomes.
C2_ReportTotals ==
    runner_outcome = "returned" =>
        /\ report.total_selectors = Len(selectors)
        /\ report.successful_selectors + report.failed_selectors
              = report.total_selectors

C2_Witness ==
    /\ runner_outcome = "returned"
    /\ report.total_selectors = 2
    /\ report.successful_selectors = 1
    /\ report.failed_selectors = 1

\* C3: the passed flag of the report is true exactly when no result of the
\* list failed (failedSelectors = 0); one failing result anywhere makes it
\* false, and the empty list passes.
C3_PassedIffNoFailure ==
    runner_outcome = "returned" =>
        /\ report.validation_passed <=> (report.failed_selectors = 0)
        /\ report.validation_passed <=>
              (\A i \in 1..Len(validation_results) : validation_results[i].success)

C3_Witness ==
    /\ runner_outcome = "returned"
    /\ Len(validation_results) = 2
    /\ validation_results[1].success
    /\ ~validation_results[2].success
    /\ ~report.validation_passed

\* C4: validate_strategy returns normally only with validation_passed = true
\* and only when no selector failed; when at least one extracted selector
\* failed its probe it raises ValidationError.
C4_StrategyReturnsOnlyPassed ==
    /\ strategy_outcome = "returned" =>
          /\ strategy_result.validation_passed
          /\ \A i \in 1..Len(validation_results) : validation_results[i].success
          /\ runner_outcome = "returned" => report.failed_selectors = 0
    /\ (/\ strategy_outcome # "pending"
        /\ \E i \in 1..Len(validation_results) : ~validation_results[i].success)
          => strategy_outcome = "ValidationError"

C4_Witness ==
    /\ strategy_outcome = "ValidationError"
    /\ runner_outcome = "returned"
    /\ report.total_selectors = 2
    /\ report.failed_selectors = 1

\* test code was generated or files were saved
Generated == Len(Ops("generate")) > 0 \/ Len(Ops("save")) > 0

ProbeAt(n) == CHOOSE k \in 1..Len(trace) : trace[k].op = "probe" /\ trace[k].i = n

\* C6: the currentUrl of result n is the page url after the navigation
\* attempts of all steps before n and before any navigation attempt of step
\* n: it is the url the page had when probe n began, every click before
\* that probe belongs to an earlier step and every click after it to step n
\* or a later one; so a url change made by step n is seen by result n+1 and
\* never shows in result n or an earlier one.
C6_CurrentUrlOrder ==
    \A n \in 1..Len(validation_results) :
        LET k == ProbeAt(n)
        IN  /\ k > 1
            /\ validation_results[n].current_url = trace[k - 1].url
            /\ \A j \in 1..Len(trace) :
                  trace[j].op = "click" => (j < k <=> trace[j].i < n)

C6_Witness ==
    /\ Len(validation_results) = 2
    /\ Len(Ops("click")) = 2
    /\ validation_results[1].current_url = "home"
    /\ validation_results[2].current_url = "page1"
    /\ url = "home"

\* the j-th smallest element of a set of integers
NthSmallest(S, j) == CHOOSE x \in S : Cardinality({y \in S : y <= x}) = j

\* C7: in a returned report all_results has one result per input selector,
\* in input order, each selector was probed exactly once and in order, and
\* failed_details is exactly the failing results, in their original order.
C7_ResultsInInputOrder ==
    runner_outcome = "returned" =>
        LET all     == report.all_results
            failing == {i \in 1..Len(all) : ~all[i].success}
            probes  == Ops("probe")
        IN  /\ Len(all) = Len(selectors)
            /\ \A i \in 1..Len(all) :
                  /\ all[i].selector = selectors[i].selector
                  /\ all[i].purpose = selectors[i].purpose
                  /\ all[i].element_type = selectors[i].element_type
            /\ Len(probes) = Len(selectors)
            /\ \A i \in 1..Len(probes) : probes[i].i = i
            /\ Len(report.failed_details) = Cardinality(failing)
            /\ \A j \in 1..Len(report.failed_details) :
                  report.failed_details[j] = all[NthSmallest(failing, j)]

C7_Witness ==
    /\ runner_outcome = "returned"
    /\ Len(report.all_results) = 2
    /\ Len(report.failed_details) = 2
    /\ report.failed_details[1] # report.failed_details[2]
    /\ report.failed_details[1].purpose = selectors[1].purpose

\* C8: the browser session opened by validate_selectors_sequentially is
\* closed on every way out of the call (a returned report, a ValidationError
\* of the page load, any other exception): once the call is over the
\* session is not open.
C8_SessionReleased ==
    (runner_outcome # "pending" \/ pc = "done") => browser # "open"

C8_Witness ==
    /\ runner_outcome = "ValidationError"
    /\ PageLoaded
    /\ Len(Ops("probe")) = 2
    /\ browser = "closed"

\* C9: if the browser fails to launch, or the initial load gets no
\* response, a status >= 400, or does not become network-idle in time, the
\* run ends with a ValidationError: no selector is probed, no navigation is
\* attempted, no report is returned.
C9_LoadFailureAborts ==
    (\/ launch \in Launches \ {"ok"}
     \/ (page_load # NotLoaded /\ ~PageLoaded)) =>
        /\ runner_outcome = "ValidationError"
        /\ validation_results = <<>>
        /\ Len(Ops("probe")) = 0
        /\ Len(Ops("click")) = 0
        /\ report = NoReport

C9_Witness ==
    /\ page_load # NotLoaded
    /\ page_load.response = Response(404)
    /\ Len(selectors) = 2
    /\ runner_outcome = "ValidationError"
    /\ pc = "done"

\* C10: per-item failures never abort the run: once the initial page has
\* loaded, the run does not end with a ValidationError; whatever happens
\* while item k is probed is recorded as the result of item k, and when the
\* run is over every item has been probed and has its result.
C10_PerItemFailuresNeverAbort ==
    PageLoaded =>
        /\ runner_outcome # "ValidationError"
        /\ Len(validation_results) = Len(Ops("probe"))
        /\ runner_outcome = "returned" => Len(validation_results) = Len(selectors)

\* the navigation gate as stated for step n: result n succeeded, the
\* lower-cased, trimmed action is click or navigate, and the lower-cased
\* element type contains link, button, menu or nav
GateHolds(n) ==
    /\ n \in 1..Len(validation_results)
    /\ validation_results[n].success
    /\ Strip(Lower(selectors[n].element_action)) \in {S_click, S_navigate}
    /\ \E keyword \in {S_link, S_button, S_menu, S_nav} :
          Contains(Lower(selectors[n].element_type), keyword)

\* C11: a click on the page is performed at step n only if the navigation
\* gate holds for step n; a failed probe, or a hover, type or verify action,
\* never causes a click.
C11_ClickOnlyThroughGate ==
    /\ \A k \in 1..Len(trace) : trace[k].op = "click" => GateHolds(trace[k].i)
    /\ pc = "navigate" => GateHolds(Len(validation_results))
    /\ \A n \in 1..Len(validation_results) :
          (\/ ~validation_results[n].success
           \/ Strip(Lower(selectors[n].element_action)) \in {S_hover, S_type, S_verify})
              => \A k \in 1..Len(trace) : ~(trace[k].op = "click" /\ trace[k].i = n)

C11_Witness ==
    /\ pc = "aggregate"
    /\ Len(validation_results) = 2
    /\ selectors[1].element_action = S_Click_sp
    /\ selectors[1].element_type = T_Nav_Button
    /\ selectors[2].element_action = S_hover
    /\ selectors[2].element_type = S_menu
    /\ validation_results[2].success
    /\ Len(Ops("click")) = 1
    /\ Ops("click")[1].i = 1

\* C12: a navigation attempt never raises and never affects any result:
\* whether the click throws, the settle wait times out or the url does not
\* change, the step of _attempt_navigation leaves every recorded result as it
\* was, leaves the run un-aborted with its browser session, and hands over
\* to the next selector (or to the aggregation after the last one).
C12_NavigationNeverRaises ==
    [][pc = "navigate" =>
          /\ validation_results' = validation_results
          /\ runner_outcome' = "pending"
          /\ report' = NoReport
          /\ browser' = "open"
          /\ pc' = IF Len(validation_results) < Len(selectors)
                   THEN "probe" ELSE "aggregate"]_vars

C12_Witness ==
    \E k \in 2..(Len(trace) - 1) :
        /\ trace[k].op = "click"
        /\ trace[k].i = 1
        /\ trace[k].url = trace[k - 1].url
        /\ trace[k + 1].op = "probe"
        /\ trace[k + 1].i = 2
        /\ Len(validation_results) = 2
        /\ validation_results[1].success

\* C13: for every SelectorSpec whose action is not one of click, hover,
\* type, verify, navigate, the result is success = false with an
\* unrecognized-action error, whatever the state of the element: the result
\* never carries the outcome of a lookup of the element (not found, not
\* visible, a browser error).
C13_UnrecognizedActionFailsEarly ==
    \A n \in 1..Len(validation_results) :
        Strip(Lower(selectors[n].element_action)) \notin VALID_ACTIONS =>
            /\ ~validation_results[n].success
            /\ validation_results[n].error \in {"unsupported_action", "unknown_action"}

\* the selector of step n is handed to the resolver: the action is one of the
\* five values or empty, so the probe does not return before resolving
Resolved(n) ==
    LET action == Strip(Lower(selectors[n].element_action))
    IN  action = <<>> \/ action \in VALID_ACTIONS

\* C14: resolving a selector that contains ':contains(' always fails with
\* the unsupported-syntax classification and success = false, whether or not
\* a matching element exists, and no count, visibility, action-specific or
\* text check is made for that item (found, visible and textMatches keep
\* their initial values).
C14_ContainsAlwaysUnsupported ==
    \A n \in 1..Len(validation_results) :
        (Resolved(n) /\ Contains(selectors[n].selector, S_contains_paren)) =>
            /\ ~validation_results[n].success
            /\ validation_results[n].error = "contains_unsupported"
            /\ ~validation_results[n].element_found
            /\ ~validation_results[n].element_visible
            /\ validation_results[n].text_matches = "None"

C14_Witness ==
    /\ Len(validation_results) = 1
    /\ selectors[1].selector = Sel_contains
    /\ selectors[1].element_action = S_verify
    /\ element # NoElement
    /\ element.count = 1
    /\ element.visible
    /\ element.text = Txt_Hi
    /\ validation_results[1].error = "contains_unsupported"
    /\ ~validation_results[1].success

\* the runner was called with an empty list and returned
EmptyRunnerReturned ==
    entry = "runner" /\ selectors = <<>> /\ runner_outcome = "returned"

\* validate_strategy was given a document from which no primary selector is
\* extracted, and is over
EmptyStrategyOver ==
    /\ entry = "suite"
    /\ test_strategy.kind = "object"
    /\ extract_primary_selectors_from_strategy(test_strategy) = <<>>
    /\ strategy_outcome # "pending"

NoProbeNoClick == Len(Ops("probe")) = 0 /\ Len(Ops("click")) = 0

LastStep == Len(validation_results)

LastResult == validation_results[LastStep]

\* the probe just made had the given action and resolved its selector to a
\* locator the engine accepts
Probed(action) ==
    /\ element # NoElement
    /\ Strip(Lower(selectors[LastStep].element_action)) = action
    /\ _create_locator_from_selector(selectors[LastStep].selector) \in {"xpath", "css"}
    /\ selectors[LastStep].selector \notin MalformedSelectors

\* C16: for a click spec whose first matching element is found, visible and
\* enabled but has no bounding box, or one with zero width or zero height,
\* the result has found = true, visible = true and success = false.
C16_ZeroAreaClickFails ==
    (/\ Probed(S_click)
     /\ element.count > 0 /\ element.visible
     /\ element.raises # "action" /\ element.enabled
     /\ \/ element.bounding_box = NoBox
        \/ element.bounding_box.width = 0
        \/ element.bounding_box.height = 0) =>
        /\ LastResult.element_found
        /\ LastResult.element_visible
        /\ ~LastResult.success

C16_Witness ==
    /\ Probed(S_click)
    /\ element.count > 0 /\ element.visible /\ element.enabled
    /\ element.bounding_box = Box(10, 0)
    /\ element.text = Txt_Hi
    /\ LastResult.element_found
    /\ LastResult.element_visible
    /\ ~LastResult.success
    /\ LastResult.error = "no_click_area"

\* C17: the existence and visibility pre-checks are terminal: if the
\* resolved locator matches no element, or its first element is not
\* visible, the result is success = false with the not-found or not-visible
\* error, no action-specific probe runs (no action-specific error is
\* recorded, no input is cleared or filled) and no text-expectation check
\* runs (textMatches stays null).
C17_PreChecksTerminal ==
    [][(/\ pc = "probe"
        /\ Len(validation_results') = Len(validation_results) + 1
        /\ Resolved(Len(validation_results) + 1)
        /\ _create_locator_from_selector(selectors[Len(validation_results) + 1].selector)
              \in {"xpath", "css"}
        /\ selectors[Len(validation_results) + 1].selector \notin MalformedSelectors
        /\ (element'.count = 0 \/ ~element'.visible)) =>
          LET r == validation_results'[Len(validation_results) + 1]
          IN  /\ ~r.success
              /\ r.error = IF element'.count = 0 THEN "not_found" ELSE "not_visible"
              /\ r.element_found = (element'.count > 0)
              /\ ~r.element_visible
              /\ r.text_matches = "None"
              /\ value' = value]_vars

C17_Witness ==
    /\ Probed(S_type)
    /\ element.count > 0
    /\ ~element.visible
    /\ element.fill = "ignore"
    /\ element.text = Txt_No
    /\ LastResult.error = "not_visible"
    /\ LastResult.text_matches = "None"
    /\ value[selectors[LastStep].selector] = Val_abc

\* C18: advisory conditions do not fail an item: for a found, visible
\* element, a verify probe that finds no text, input value or descriptive
\* attribute, and a navigate probe that finds no usable href, onclick
\* attribute or pointer cursor, record an error text on the result but the
\* result has success = true, provided there is no text-expectation mismatch
\* and no exception.
C18_AdvisoryDoesNotFail ==
    LET expectation == _extract_text_expectation(selectors[LastStep].selector)
        no_text_failure ==
            \/ expectation = None
            \/ (element.raises # "text_content" /\ Contains(element.text, expectation))
        found_visible == element.count > 0 /\ element.visible /\ element.raises # "action"
    IN  /\ (/\ Probed(S_verify) /\ found_visible /\ no_text_failure
            /\ element.text = <<>> /\ ~element.has_value /\ ~element.has_attribute) =>
               /\ LastResult.success
               /\ LastResult.error = "no_verifiable_content"
        /\ (/\ Probed(S_navigate) /\ found_visible /\ no_text_failure
            /\ \/ element.href = None
               \/ element.href = <<>>
               \/ element.href = S_hash
               \/ StartsWith(element.href, S_js_void)
            /\ ~element.onclick /\ ~element.cursor_pointer) =>
               /\ LastResult.success
               /\ LastResult.error = "no_navigation_signs"

\* a navigate probe without navigation signs and a verify probe without
\* verifiable content both succeed, each with its error text
C18_Witness ==
    /\ LastStep = 2
    /\ selectors[1].element_action = S_navigate
    /\ validation_results[1].success
    /\ validation_results[1].text_matches = "True"
    /\ validation_results[1].error = "no_navigation_signs"
    /\ Probed(S_verify)
    /\ element.text = <<>> /\ ~element.has_value /\ ~element.has_attribute
    /\ LastResult.success
    /\ LastResult.error = "no_verifiable_content"

\* the action-specific hard check of the given action passes on the element
HardCheckPasses(action, el) ==
    /\ el.raises # "action"
    /\ action = S_click =>
          /\ el.enabled
          /\ el.bounding_box # NoBox
          /\ el.bounding_box.width > 0
          /\ el.bounding_box.height > 0
    /\ action = S_type => (el.editable /\ el.fill = "accept")

\* the selector has one of the three forms that encode an expected text
EncodesText(selector) ==
    \/ Contains(selector, S_text_eq)
    \/ Contains(selector, S_normalize_eq)
    \/ Contains(selector, S_contains_text)

\* C19: for any of the five actions, when the selector encodes an expected
\* text fragment and all earlier checks passed, a first-element text content
\* that does not contain the fragment gives textMatches = false and
\* success = false; textMatches is non-null only for selectors that encode
\* a text expectation.
C19_TextMismatchFails ==
    /\ \A action \in VALID_ACTIONS :
          (/\ Probed(action)
           /\ _extract_text_expectation(selectors[LastStep].selector) # None
           /\ element.count > 0 /\ element.visible
           /\ HardCheckPasses(action, element)
           /\ element.raises # "text_content"
           /\ ~Contains(element.text,
                        _extract_text_expectation(selectors[LastStep].selector))) =>
              /\ LastResult.text_matches = "False"
              /\ ~LastResult.success
    /\ \A n \in 1..Len(validation_results) :
          ("text_matches" \in DOMAIN validation_results[n]
              /\ validation_results[n].text_matches # "None")
             => EncodesText(selectors[n].selector)

C19_Witness ==
    /\ LastStep = 2
    /\ selectors[1].element_action = S_hover
    /\ selectors[1].selector = Sel_norm_Hi
    /\ validation_results[1].text_matches = "False"
    /\ ~validation_results[1].success
    /\ Probed(S_type)
    /\ element.editable /\ element.fill = "accept"
    /\ element.text = Txt_No
    /\ LastResult.text_matches = "False"
    /\ LastResult.element_found /\ LastResult.element_visible
    /\ ~LastResult.success

\* C20: in every ValidationResult, success = true implies that every
\* applicable check passed: the element was found, its first element was
\* visible, the action is one of the five and its hard check passed on the
\* element, and textMatches is not false (the text contains the fragment
\* when the selector encodes one).
C20_SuccessMeansAllChecks ==
    /\ \A n \in 1..Len(validation_results) :
          validation_results[n].success =>
              /\ validation_results[n].element_found
              /\ validation_results[n].element_visible
              /\ validation_results[n].text_matches # "False"
              /\ Strip(Lower(selectors[n].element_action)) \in VALID_ACTIONS
              /\ _create_locator_from_selector(selectors[n].selector) \in {"xpath", "css"}
    /\ (element # NoElement /\ LastResult.success) =>
          /\ element.count > 0
          /\ element.visible
          /\ HardCheckPasses(Strip(Lower(selectors[LastStep].element_action)), element)
          /\ EncodesText(selectors[LastStep].selector) =>
                /\ LastResult.text_matches = "True"
                /\ Contains(element.text, Txt_Hi)

C20_Witness ==
    /\ Probed(S_type)
    /\ LastResult.success
    /\ LastResult.text_matches = "True"
    /\ LastResult.error = "None"
    /\ element.editable /\ element.fill = "accept"
    /\ value[selectors[LastStep].selector] = Val_abc

\* C21: an unparseable strategy document makes validate_strategy raise a
\* ValidationError (format error) before any browser is launched, any page
\* is loaded or any selector is probed.
C21_MalformedFailsFast ==
    test_strategy.kind = "malformed" =>
        /\ launch = "pending"
        /\ browser = "none"
        /\ page_load = NotLoaded
        /\ Len(Ops("launch")) = 0 /\ Len(Ops("goto")) = 0
        /\ NoProbeNoClick
        /\ strategy_outcome # "pending" =>
              /\ strategy_outcome = "ValidationError"
              /\ strategy_result = [error |-> "format_error"]

C21_Witness ==
    /\ test_strategy.kind = "malformed"
    /\ strategy_outcome = "ValidationError"
    /\ strategy_result.error = "format_error"
    /\ pc = "done"
    /\ trace = <<>>

\* C22: when validation fails, the message of the ValidationError carries
\* the overall failure rate (to one decimal) and the purpose and error text
\* of at most three failing items: the first min(3, failedSelectors) failing
\* items, in input order, however many items failed.
C22_MessageFirstThreeFailures ==
    (strategy_outcome = "ValidationError" /\ runner_outcome = "returned") =>
        LET failing == {i \in 1..Len(validation_results) : ~validation_results[i].success}
            shown   == strategy_result.failed_details
            k       == IF Cardinality(failing) < 3 THEN Cardinality(failing) ELSE 3
            tenths  == strategy_result.failure_rate
            total   == Len(validation_results)
        IN  /\ strategy_result.error = "validation_failed"
            /\ Cardinality(failing) > 0
            /\ Len(shown) = k
            /\ \A j \in 1..k :
                  /\ shown[j].purpose = validation_results[NthSmallest(failing, j)].purpose
                  /\ shown[j].error = validation_results[NthSmallest(failing, j)].error
            \* |tenths / 10 - 100 * failed / total| <= 0.05
            /\ 2 * (tenths * total - 1000 * Cardinality(failing)) <= total
            /\ 2 * (1000 * Cardinality(failing) - tenths * total) <= total

C22_Witness ==
    /\ strategy_outcome = "ValidationError"
    /\ runner_outcome = "returned"
    /\ Len(validation_results) = 4
    /\ validation_results[1].success
    /\ report.failed_selectors = 3
    /\ strategy_result.failure_rate = 750
    /\ Len(strategy_result.failed_details) = 3
    /\ strategy_result.failed_details[1].error = "not_visible"
    /\ strategy_result.failed_details[2].error = "not_found"
    /\ strategy_result.failed_details[3].purpose # strategy_result.failed_details[2].purpose

\* the positions of the trace that hold the given operation
Positions(op) == {k \in 1..Len(trace) : trace[k].op = op}

\* C23: the run follows Idle -> PageLoaded -> (Probing -> optional
\* NavigationAttempt)* -> Aggregating -> Done: the initial page is loaded
\* exactly once and before the first probe, the items are probed once each
\* in order, the navigation attempt of item n (at most one) comes right
\* after probe n and before probe n+1, and the report is computed exactly
\* once, only after the last item has been probed, and is what the run
\* returns.
C23_LinearStateSequence ==
    /\ Cardinality(Positions("goto")) <= 1
    /\ \A k \in Positions("probe") :
          /\ Cardinality(Positions("goto")) = 1
          /\ \A g \in Positions("goto") : g < k
          /\ PageLoaded
    /\ \A k \in Positions("probe") :
          \A j \in Positions("probe") : (j < k) <=> (trace[j].i < trace[k].i)
    /\ \A n \in 1..Cardinality(Positions("probe")) :
          \E k \in Positions("probe") : trace[k].i = n
    /\ \A k \in Positions("click") :
          /\ k > 1
          /\ trace[k - 1].op = "probe"
          /\ trace[k - 1].i = trace[k].i
    /\ Cardinality(Positions("aggregate")) <= 1
    /\ \A k \in Positions("aggregate") :
          /\ Cardinality(Positions("probe")) = Len(selectors)
          /\ \A j \in Positions("probe") \cup Positions("click") \cup Positions("goto") : j < k
          /\ runner_outcome = "returned"
          /\ report.all_results = validation_results
    /\ runner_outcome = "returned" => Cardinality(Positions("aggregate")) = 1

C23_Witness ==
    /\ runner_outcome = "returned"
    /\ Len(report.all_results) = 2
    /\ Len(trace) = 6
    /\ trace[1].op = "launch"
    /\ trace[2].op = "goto"
    /\ trace[3].op = "probe" /\ trace[3].i = 1
    /\ trace[4].op = "click" /\ trace[4].i = 1
    /\ trace[5].op = "probe" /\ trace[5].i = 2
    /\ trace[6].op = "aggregate"

\* C24: the feasibility probes of click, verify and navigate perform no
\* mutating browser operation: a step that probes such an item leaves the
\* page url and every element value as they were and issues no click; the
\* only clicks of a run are those of the navigation attempt.
C24_ReadOnlyProbes ==
    [][/\ (/\ pc = "probe"
           /\ Strip(Lower(selectors[Len(validation_results) + 1].element_action))
                 \in {S_click, S_verify, S_navigate}) =>
              /\ url' = url
              /\ value' = value
              /\ {k \in 1..Len(trace') : trace'[k].op = "click"}
                    = {k \in 1..Len(trace) : trace[k].op = "click"}
       /\ ({k \in 1..Len(trace') : trace'[k].op = "click"}
              # {k \in 1..Len(trace) : trace[k].op = "click"}) => pc = "navigate"]_vars

C24_Witness ==
    /\ Probed(S_verify)
    /\ selectors[LastStep].selector = Sel_in
    /\ LastResult.success
    /\ value[Sel_in] = Val_abc
    /\ url = "page1"
    /\ LastResult.current_url = "page1"

\* The rate of a report against the exact quotient, both scaled to whole
\* numbers: rate * total * 2^(-exp) and 100 * failed * 2^(-exp).
RateTimesTotal(r) ==
    IF r.failure_rate = FloatZero THEN <<>>
    ELSE MulSmall(r.failure_rate.bits, r.total_selectors)

HundredTimesFailed(r) ==
    IF r.failure_rate = FloatZero THEN IntBits(100 * r.failed_selectors)
    ELSE ShiftLeft(IntBits(100 * r.failed_selectors), 0 - r.failure_rate.exp)

\* C25 as stated: failureRate * totalSelectors = 100 * failedSelectors in
\* every report.
C25_FailureRateExact ==
    runner_outcome = "returned" =>
        Trim(RateTimesTotal(report)) = Trim(HundredTimesFailed(report))

\* C25: failureRate is the float (failedSelectors / totalSelectors) * 100,
\* and 0 for an empty list: it lies between 0 and 100, is 0 exactly when no
\* item failed, is exactly 100 when every item of a non-empty list failed,
\* and differs from 100 * failedSelectors / totalSelectors by at most three
\* units in its last binary digit.
C25_FailureRateRounded ==
    runner_outcome = "returned" =>
        LET rate == report.failure_rate
            slack == IntBits(3 * report.total_selectors)
        IN  /\ report.total_selectors = Len(validation_results)
            /\ report.failed_selectors
                  = Cardinality({i \in 1..Len(validation_results) :
                                    ~validation_results[i].success})
            /\ rate = FloatZero <=> report.failed_selectors = 0
            /\ rate # FloatZero => Len(rate.bits) = 53 /\ rate.bits[53] = 1
            /\ FloatLe(rate, 100)
            /\ (report.total_selectors > 0
                  /\ report.failed_selectors = report.total_selectors) =>
                  Trim(RateTimesTotal(report)) = Trim(HundredTimesFailed(report))
            /\ LeBits(RateTimesTotal(report), AddBits(HundredTimesFailed(report), slack))
            /\ LeBits(HundredTimesFailed(report), AddBits(RateTimesTotal(report), slack))

C25_Witness ==
    /\ runner_outcome = "returned"
    /\ report.total_selectors = 3
    /\ report.failed_selectors = 1
    /\ Trim(RateTimesTotal(report)) # Trim(HundredTimesFailed(report))
    /\ ~FloatLe(report.failure_rate, 33)
    /\ FloatLe(report.failure_rate, 34)

\* the runner has been called and has neither returned nor raised
RunnerActive == pc \in {"launch", "load", "probe", "navigate", "aggregate"}

\* the steps the runner still has to take, at most: two for each item that
\* is not probed yet, the attempt of the item just probed, the aggregation
StepsLeft ==
    LET todo == Len(selectors) - Len(validation_results)
    IN  CASE pc = "launch"    -> 2 * Len(selectors) + 4
          [] pc = "load"      -> 2 * Len(selectors) + 3
          [] pc = "probe"     -> 2 * todo + 2
          [] pc = "navigate"  -> 2 * todo + 3
          [] pc = "aggregate" -> 1
          [] OTHER            -> 0

\* the step the runner is at can be taken: the loop has an item to probe
\* (and the probe an answer for it), the other steps wait for nothing
CanStep ==
    CASE pc = "probe" ->
            /\ Len(validation_results) < Len(selectors)
            /\ LET selector_info == selectors[Len(validation_results) + 1]
               IN  \/ selector_info.element_action = None
                   \/ ElementStates(NormAction(selector_info)) # {}
      [] pc = "navigate" -> Len(validation_results) \in 1..Len(selectors)
      [] OTHER -> ENABLED (Launch \/ LoadPage \/ CalculateResults)

\* C26: every run of validate_selectors_sequentially over a finite list
\* terminates: from its call to its end a step can always be taken (it never
\* stalls), every step leaves fewer steps to take, of which there are at
\* most 2 * Len(selectors) + 4, each step of the loop probes the item after
\* the last one probed (no item is revisited), and the run ends returning a
\* report or raising ValidationError, never to be resumed.
C26_RunTerminates ==
    /\ [](RunnerActive => (runner_outcome = "pending" /\ CanStep))
    /\ [](StepsLeft \in 0..(2 * Len(selectors) + 4))
    /\ [](~RunnerActive =>
            \/ runner_outcome = "pending" /\ pc \in {"validate_strategy", "generate", "save", "done"}
            \/ runner_outcome = "returned" /\ report # NoReport
            \/ runner_outcome = "ValidationError" /\ report = NoReport)
    /\ [][/\ RunnerActive => StepsLeft' < StepsLeft
          /\ runner_outcome # "pending" =>
                (~RunnerActive' /\ runner_outcome' = runner_outcome)
          /\ pc = "probe" =>
                \/ runner_outcome' = "ValidationError"
                \/ /\ Len(validation_results') = Len(validation_results) + 1
                   /\ SubSeq(validation_results', 1, Len(validation_results))
                         = validation_results
                   /\ validation_results'[Len(validation_results')].selector
                         = selectors[Len(validation_results')].selector
          /\ pc # "probe" => validation_results' = validation_results]_vars

C26_Witness ==
    /\ ~RunnerActive
    /\ runner_outcome = "returned"
    /\ Len(report.all_results) = MaxElements
    /\ Positions("click") # {}
    /\ Cardinality(Positions("probe")) = MaxElements

\* the selector is one of the placeholders the resolver refuses
Sentinel(selector) ==
    StartsWith(selector, S_NA) \/ Contains(selector, S_window_loc)

\* C27: a sentinel placeholder selector (one that begins with 'N/A' or
\* contains 'window.location') never passes, and when it is handed to the
\* resolver it is rejected without the page being queried: whatever the
\* element, the result is success = false with the invalid-syntax error and
\* found, visible and textMatches as first built (no count, visibility,
\* action or text check), and no navigation is attempted for the item.
C27_SentinelRejected ==
    \A n \in 1..Len(validation_results) :
        Sentinel(selectors[n].selector) =>
            /\ ~validation_results[n].success
            /\ "element_found" \in DOMAIN validation_results[n] =>
                  ~validation_results[n].element_found
            /\ Resolved(n) =>
                  /\ validation_results[n].error
                        = IF Contains(selectors[n].selector, S_contains_paren)
                          THEN "contains_unsupported" ELSE "invalid_selector_syntax"
                  /\ ~validation_results[n].element_found
                  /\ ~validation_results[n].element_visible
                  /\ validation_results[n].text_matches = "None"
            /\ \A k \in Positions("click") : trace[k].i # n

C27_Witness ==
    /\ Len(validation_results) = 2
    /\ selectors[1].selector = S_NA
    /\ selectors[2].selector = Sel_script
    /\ Resolved(1) /\ Resolved(2)
    /\ element # NoElement
    /\ element.count = 1
    /\ element.visible
    /\ Truthy(element.href)
    /\ validation_results[1].error = "invalid_selector_syntax"
    /\ validation_results[2].error = "invalid_selector_syntax"
    /\ ~validation_results[2].success

\* C28: every failing result carries a diagnostic: in every result of
\* _test_single_selector success = false implies a non-null error, so every
\* entry of failed_details, and every line of the failure message of
\* validate_strategy, names an error.
C28_FailureHasError ==
    /\ \A n \in 1..Len(validation_results) :
          ~validation_results[n].success => validation_results[n].error # "None"
    /\ report # NoReport =>
          \A j \in 1..Len(report.failed_details) :
              report.failed_details[j].error # "None"
    /\ (strategy_outcome = "ValidationError"
          /\ "failed_details" \in DOMAIN strategy_result) =>
          \A j \in 1..Len(strategy_result.failed_details) :
              strategy_result.failed_details[j].error # "None"

C28_Witness ==
    /\ strategy_outcome = "ValidationError"
    /\ "failed_details" \in DOMAIN strategy_result
    /\ Len(strategy_result.failed_details) = 2
    /\ strategy_result.failed_details[1].error = "text_mismatch"
    /\ strategy_result.failed_details[2].error = "unsupported_action"

LastItem == selectors[LastStep]

LastAction == Strip(Lower(LastItem.element_action))

\* the action-specific check of the item just probed fails hard on the
\* element it met
HardActionFailure ==
    \/ element.raises = "action"
    \/ LastAction = <<>>
    \/ LastAction = S_click /\ (~element.enabled \/ no_click_area(element.bounding_box))
    \/ LastAction = S_type /\ (~element.editable \/ element.fill # "accept")

\* C30: the checks of an item are applied in one order and the first hard
\* failure is the one recorded: an unrecognized action, then a sentinel or
\* unsupported selector, then not found, then not visible, then the
\* action-specific hard check, then the text mismatch; whatever a later
\* check would have said.  An item with an unrecognized action and a
\* ':contains(' selector is classified as unrecognized action.
C30_FirstFailingCheckRecorded ==
    (element # NoElement /\ LastStep > 0) =>
        LET invalid  == Truthy(LastAction) /\ LastAction \notin VALID_ACTIONS
            syntax   == Sentinel(LastItem.selector)
                           \/ Contains(LastItem.selector, S_contains_paren)
            rejected == LastItem.selector \in MalformedSelectors
            absent   == element.count = 0
            hidden   == ~element.visible
            expected == _extract_text_expectation(LastItem.selector)
        IN  /\ invalid => LastResult.error = "unsupported_action"
            /\ (~invalid /\ syntax) =>
                  LastResult.error \in {"invalid_selector_syntax", "contains_unsupported"}
            /\ (~invalid /\ ~syntax /\ ~rejected /\ absent) =>
                  LastResult.error = "not_found"
            /\ (~invalid /\ ~syntax /\ ~rejected /\ ~absent /\ hidden) =>
                  LastResult.error = "not_visible"
            /\ (~invalid /\ ~syntax /\ ~rejected /\ ~absent /\ ~hidden
                  /\ HardActionFailure) =>
                  /\ LastResult.error
                        \in {"click_test_failed", "not_clickable", "no_click_area",
                             "input_test_failed", "not_editable", "input_not_accepted",
                             "hover_test_failed", "verify_test_failed",
                             "navigate_test_failed", "unknown_action"}
                  /\ LastResult.text_matches = "None"
            /\ (~invalid /\ ~syntax /\ ~rejected /\ ~absent /\ ~hidden
                  /\ ~HardActionFailure /\ Truthy(expected)
                  /\ element.raises = "none"
                  /\ ~Contains(element.text, expected)) =>
                  LastResult.error = "text_mismatch"
            /\ (invalid \/ syntax \/ rejected \/ absent \/ hidden \/ HardActionFailure)
                  => ~LastResult.success

C30_Witness ==
    /\ element # NoElement
    /\ LastStep = 2
    /\ LastItem.selector = Sel_contains
    /\ LastAction = S_submit
    /\ element.count = 0
    /\ LastResult.error = "unsupported_action"
    /\ validation_results[1].error = "contains_unsupported"

\* the selectors of the run are those extracted from the document: the
\* runner was called with them, or validate_strategy has extracted them
SelectorsExtracted ==
    /\ test_strategy.kind = "object"
    /\ entry = "suite" => pc # "validate_strategy"

\* positions of the target elements whose primary selector is non-empty
KeptPositions ==
    {i \in 1..Len(test_strategy.ai_enhanced_target_elements) :
        Truthy(test_strategy.ai_enhanced_target_elements[i].selector_strategy.primary)}

\* C32: extract_primary_selectors_from_strategy returns the elements that
\* have a non-empty primary selector, in document order, each with its
\* original position as element_index (strictly increasing); elements with
\* a missing or empty primary selector are dropped and never validated
\* (every probe, result and navigation attempt is for an extracted spec), so
\* there are at most as many validated specs as target elements.
C32_PrimarySelectorsExtracted ==
    SelectorsExtracted =>
        LET targets == test_strategy.ai_enhanced_target_elements
        IN  /\ Len(selectors) = Cardinality(KeptPositions)
            /\ Len(selectors) <= Len(targets)
            /\ \A n \in 1..Len(selectors) :
                  /\ selectors[n].element_index + 1 \in KeptPositions
                  /\ LET e == targets[selectors[n].element_index + 1]
                     IN  /\ selectors[n].selector = e.selector_strategy.primary
                         /\ selectors[n].element_type = e.element_type
                         /\ selectors[n].purpose = e.purpose
                         /\ selectors[n].element_action = e.action
                  /\ n > 1 => selectors[n - 1].element_index < selectors[n].element_index
            /\ Len(validation_results) <= Len(selectors)
            /\ \A n \in 1..Len(validation_results) :
                  /\ Truthy(validation_results[n].selector)
                  /\ validation_results[n].selector = selectors[n].selector
                  /\ validation_results[n].purpose = selectors[n].purpose
            /\ \A k \in 1..Len(trace) :
                  trace[k].op \in {"probe", "click"} => trace[k].i \in 1..Len(selectors)

\* of two target elements the first has an empty primary selector: the only
\* spec validated is the second, with element_index 1
C32_Witness ==
    /\ entry = "suite"
    /\ SelectorsExtracted
    /\ Len(test_strategy.ai_enhanced_target_elements) = 2
    /\ test_strategy.ai_enhanced_target_elements[1].selector_strategy.primary = <<>>
    /\ Len(selectors) = 1
    /\ selectors[1].element_index = 1
    /\ selectors[1].selector = Sel_bad
    /\ Len(validation_results) = 1
    /\ validation_results[1].selector = Sel_bad
    /\ Cardinality(Positions("probe")) = 1
    /\ strategy_outcome = "ValidationError"

\* position in the trace of the launch of the call under way, once it has
\* launched
LastLaunch ==
    CHOOSE k \in 1..Len(trace) :
        /\ trace[k].op = "launch"
        /\ \A j \in (k + 1)..Len(trace) : trace[j].op # "launch"

\* C31: runs are isolated: when validate_selectors_sequentially is called
\* several times on the same SelectorValidator, the local list of a call
\* starts empty and holds one result per item of that call's list, in
\* order, the first of them observed on the freshly loaded initial page; the
\* report returned counts and lists the results of that call only (its
\* totals, all_results and failed_details), and the field
\* self.validation_results never receives a result.
C31_RunsIsolated ==
    /\ self_validation_results = <<>>
    /\ pc \in {"launch", "load"} => validation_results = <<>>
    /\ Len(validation_results) <= Len(selectors)
    /\ \A n \in 1..Len(validation_results) :
          /\ validation_results[n].selector = selectors[n].selector
          /\ validation_results[n].purpose = selectors[n].purpose
    /\ (validation_results # <<>>) => validation_results[1].current_url = "home"
    /\ pc # "launch" =>
          \A k \in LastLaunch..Len(trace) :
              trace[k].op \in {"probe", "click"} => trace[k].i \in 1..Len(selectors)
    /\ runner_outcome = "returned" =>
          /\ report.total_selectors = Len(selectors)
          /\ report.all_results = validation_results
          /\ report.successful_selectors + report.failed_selectors = Len(selectors)
          /\ report.failed_selectors
                = Cardinality({n \in 1..Len(selectors) : ~validation_results[n].success})
          /\ Len(report.failed_details) = report.failed_selectors
          /\ \A j \in 1..Len(report.failed_details) :
                \E n \in 1..Len(validation_results) :
                    report.failed_details[j] = validation_results[n]
          /\ report.validation_passed = (report.failed_selectors = 0)

\* the first call returned a report with a failure after its page was left
\* on another url or not; the second call, on the same validator, returned a
\* report of one passing result observed on the initial page
C31_Witness ==
    /\ Calls = 2
    /\ Len(earlier_reports) = 1
    /\ earlier_reports[1].total_selectors = 1
    /\ earlier_reports[1].failed_selectors = 1
    /\ runner_outcome = "returned"
    /\ Len(selectors) = 1
    /\ report.total_selectors = 1
    /\ report.failed_selectors = 0
    /\ report.failed_details = <<>>
    /\ report.validation_passed
    /\ report.all_results[1].current_url = "home"
    /\ url = "page1"

====
